---- MODULE Spec2Model ----
(***************************************************************************)
(* Model of the generation endpoint of FluxForge Studio                    *)
(* (src/app/src/app/api/generate/route.ts): the POST handler, its request  *)
(* normaliser (parseMode, clampNumber, validateAspectRatio), the asset     *)
(* encoder (encodeFile), the provider router (tryExternalGeneration,       *)
(* generateWithFal, generateWithReplicate) and the mock catalog            *)
(* (createMockResponse); and of the studio page that calls it              *)
(* (src/app/src/app/page.tsx): handleFileChange, handleSubmit and the      *)
(* promise chain of its fetch.                                             *)
(*                                                                         *)
(* Strings the code inspects character by character (mode, prompt,         *)
(* duration, guidance, aspectRatio) are sequences of one-character         *)
(* strings.  Strings the code only passes along or tests for emptiness     *)
(* (URLs, MIME types, credentials, messages) are TLA+ strings.             *)
(* Numbers are decimal fractions [m, e] standing for m / 10^e.             *)
(*                                                                         *)
(* One request is followed from arrival to response.  Requests share no    *)
(* mutable state (the credentials are read once at module load), so        *)
(* concurrent requests do not interact.  The catch of                      *)
(* tryExternalGeneration (lines 172-174) has no action: generateWithFal    *)
(* and generateWithReplicate catch everything they throw.                  *)
(***************************************************************************)
EXTENDS Integers, Sequences, FiniteSets, TLC

VARIABLES
    FAL_KEY,        \* process.env.FAL_KEY, fixed at process start
    REPLICATE_KEY,  \* process.env.REPLICATE_API_TOKEN, fixed at process start
    request,        \* the incoming request: its multipart form, or a body that does not parse
    pc,             \* position of the handler
    payload,        \* GenerationPayload under construction
    jobId,          \* `job_${randomUUID()}`
    providerResult, \* result of tryExternalGeneration
    fetches,        \* outbound provider calls issued so far, in order
    inflight,       \* outbound provider calls issued and not yet settled
    lastResponse,   \* what the last settled outbound call produced
    filesRead,      \* form fields whose file content was read (file.arrayBuffer())
    mockBuilt,      \* number of createMockResponse calls
    logged,         \* console.error tags, in order
    response,       \* the HTTP response of the handler
    arg,            \* a form value handed to one function of the normaliser
    out,            \* what the function returned
    fn,             \* which function was applied: "duration", "guidance", "aspectRatio"
    home,           \* state of the Home component of the page
    submitted,      \* number of fetches the page has issued
    pendingFetches  \* the FormData of each request of the page whose fetch has not settled

vars == <<FAL_KEY, REPLICATE_KEY, request, pc, payload, jobId, providerResult,
          fetches, inflight, lastResponse, filesRead, mockBuilt, logged,
          response, arg, out, fn, home, submitted, pendingFetches>>

handlerVars == <<FAL_KEY, REPLICATE_KEY, request, pc, payload, jobId,
                 providerResult, fetches, inflight, lastResponse, filesRead,
                 mockBuilt, logged, response>>

pureVars == <<arg, out, fn>>

pageVars == <<home, submitted, pendingFetches>>

-----------------------------------------------------------------------------
(* JavaScript values *)

Null == [kind |-> "null"]

Undefined == [kind |-> "undefined"]

Str(chars) == [kind |-> "string", chars |-> chars]

FileOf(size, type, content) ==
    [kind |-> "file", size |-> size, type |-> type, content |-> content]

IsFile(v) == v.kind = "file"

\* String(file): an object without its own toString prints as "[object File]"
ObjectFileString ==
    <<"[", "o", "b", "j", "e", "c", "t", " ", "F", "i", "l", "e", "]">>

\* String(value ?? dflt) for a FormDataEntryValue | null
StringOr(value, dflt) ==
    IF value.kind = "null" THEN dflt
    ELSE IF value.kind = "file" THEN ObjectFileString
    ELSE value.chars

-----------------------------------------------------------------------------
(* Characters *)

UpperCase ==
    <<"A", "B", "C", "D", "E", "F", "G", "H", "I", "J", "K", "L", "M",
      "N", "O", "P", "Q", "R", "S", "T", "U", "V", "W", "X", "Y", "Z">>

LowerCase ==
    <<"a", "b", "c", "d", "e", "f", "g", "h", "i", "j", "k", "l", "m",
      "n", "o", "p", "q", "r", "s", "t", "u", "v", "w", "x", "y", "z">>

toLowerCaseChar(c) ==
    IF \E i \in DOMAIN UpperCase : UpperCase[i] = c
    THEN LowerCase[CHOOSE i \in DOMAIN UpperCase : UpperCase[i] = c]
    ELSE c

\* String.prototype.toLowerCase
toLowerCase(s) == [i \in DOMAIN s |-> toLowerCaseChar(s[i])]

\* WhiteSpace and LineTerminator code points that occur in the inputs
WhiteSpace == {" ", "\t", "\n", "\r"}

RECURSIVE trimStart(_)
trimStart(s) ==
    IF s # <<>> /\ Head(s) \in WhiteSpace THEN trimStart(Tail(s)) ELSE s

RECURSIVE trimEnd(_)
trimEnd(s) ==
    IF s # <<>> /\ s[Len(s)] \in WhiteSpace
    THEN trimEnd(SubSeq(s, 1, Len(s) - 1))
    ELSE s

\* a trim that strips nothing
trim_none(s) == s

\* String.prototype.trim
trim(s) == trimEnd(trimStart(s))

Digits == <<"0", "1", "2", "3", "4", "5", "6", "7", "8", "9">>

IsDigit(c) == \E i \in DOMAIN Digits : Digits[i] = c

DigitValue(c) == (CHOOSE i \in DOMAIN Digits : Digits[i] = c) - 1

-----------------------------------------------------------------------------
(* Numbers: [kind |-> "num", m, e] is m / 10^e; NaN and the infinities *)

RECURSIVE Pow10(_)
Pow10(n) == IF n = 0 THEN 1 ELSE 10 * Pow10(n - 1)

RECURSIVE Reduce(_, _)
Reduce(m, e) ==
    IF e > 0 /\ m % 10 = 0 THEN Reduce(m \div 10, e - 1)
    ELSE [kind |-> "num", m |-> m, e |-> e]

Num(m, e) == Reduce(m, e)

IntNum(n) == Num(n, 0)

NaN == [kind |-> "NaN"]

Infinity == [kind |-> "inf", sign |-> 1]

NegInfinity == [kind |-> "inf", sign |-> -1]

\* a < b for finite numbers
NumLess(a, b) == a.m * Pow10(b.e) < b.m * Pow10(a.e)

\* Math.max, Math.min on finite numbers
MathMax(a, b) == IF NumLess(a, b) THEN b ELSE a

MathMin(a, b) == IF NumLess(b, a) THEN b ELSE a

\* Number.isFinite
IsFinite(n) == n.kind = "num"

-----------------------------------------------------------------------------
(* Number(value): ToNumber of a FormDataEntryValue | null.                 *)
(* StringToNumber is modelled for decimal literals without exponent and    *)
(* for the Infinity literal; the inputs drawn below hold none of the       *)
(* letters of an exponent or of a hex, octal or binary prefix.             *)

RECURSIVE DigitPrefixLen(_)
DigitPrefixLen(s) ==
    IF s # <<>> /\ IsDigit(Head(s)) THEN 1 + DigitPrefixLen(Tail(s)) ELSE 0

RECURSIVE DigitsValue(_)
DigitsValue(s) ==
    IF s = <<>> THEN 0
    ELSE 10 * DigitsValue(SubSeq(s, 1, Len(s) - 1)) + DigitValue(s[Len(s)])

InfinityLiteral == <<"I", "n", "f", "i", "n", "i", "t", "y">>

Drop(s, n) == SubSeq(s, n + 1, Len(s))

\* StrUnsignedDecimalLiteral, scaled by sign
UnsignedToNumber(u, sign) ==
    IF u = InfinityLiteral
    THEN (IF sign = 1 THEN Infinity ELSE NegInfinity)
    ELSE
        LET ni == DigitPrefixLen(u)
            r1 == Drop(u, ni)
            dot == r1 # <<>> /\ Head(r1) = "."
            nf == IF dot THEN DigitPrefixLen(Tail(r1)) ELSE 0
            r2 == IF dot THEN Drop(r1, 1 + nf) ELSE r1
            mant == DigitsValue(SubSeq(u, 1, ni)) * Pow10(nf)
                    + (IF dot THEN DigitsValue(SubSeq(r1, 2, 1 + nf)) ELSE 0)
        IN  IF ni + nf = 0 \/ r2 # <<>> THEN NaN
            ELSE Num(sign * mant, nf)

StringToNumber(s) ==
    LET t == trim(s)
    IN  IF t = <<>> THEN IntNum(0)
        ELSE IF Head(t) = "-" THEN UnsignedToNumber(Tail(t), -1)
        ELSE IF Head(t) = "+" THEN UnsignedToNumber(Tail(t), 1)
        ELSE UnsignedToNumber(t, 1)

Number(value) ==
    IF value.kind = "null" THEN IntNum(0)
    ELSE IF value.kind = "file" THEN StringToNumber(ObjectFileString)
    ELSE StringToNumber(value.chars)

-----------------------------------------------------------------------------
(* The request normaliser *)

sText == <<"t", "e", "x", "t">>

sImage == <<"i", "m", "a", "g", "e">>

sReference == <<"r", "e", "f", "e", "r", "e", "n", "c", "e">>

Thrown(message) == [ok |-> FALSE, error |-> message]

Returned(value) == [ok |-> TRUE, value |-> value]

\* a parseMode that trims the field before comparing it
parseMode_trimmed(value) ==
    LET normalized == toLowerCase(trim(StringOr(value, <<>>)))
    IN  IF normalized = sImage \/ normalized = sReference \/ normalized = sText
        THEN Returned(normalized)
        ELSE Thrown("Unsupported generation mode.")

parseMode(value) ==
    LET normalized == toLowerCase(StringOr(value, <<>>))
    IN  IF normalized = sImage \/ normalized = sReference \/ normalized = sText
        THEN Returned(normalized)
        ELSE Thrown("Unsupported generation mode.")

clampNumber(value, min, max, fallback) ==
    LET numeric == Number(value)
    IN  IF IsFinite(numeric)
        THEN MathMin(IntNum(max), MathMax(IntNum(min), numeric))
        ELSE IntNum(fallback)

\* positions just after a match of \d+ that starts at position i
AfterDigits(s, i) ==
    {j \in (i + 1)..(Len(s) + 1) : \A k \in i..(j - 1) : IsDigit(s[k])}

\* positions just after a match of \d+(\.\d+)? that starts at position i
AfterDecimal(s, i) ==
    AfterDigits(s, i) \cup
    UNION {AfterDigits(s, j + 1) : j \in {k \in AfterDigits(s, i) : k <= Len(s) /\ s[k] = "."}}

\* the pattern without its end anchor
patternTest_unanchored(value) ==
    \E p \in AfterDecimal(value, 1) :
        /\ p <= Len(value)
        /\ value[p] = ":"
        /\ AfterDecimal(value, p + 1) # {}

\* /^\d+(\.\d+)?:\d+(\.\d+)?$/.test(value)
patternTest(value) ==
    \E p \in AfterDecimal(value, 1) :
        /\ p <= Len(value)
        /\ value[p] = ":"
        /\ (Len(value) + 1) \in AfterDecimal(value, p + 1)

sDefaultRatio == <<"1", "6", ":", "9">>

validateAspectRatio(value) == IF patternTest(value) THEN value ELSE sDefaultRatio

-----------------------------------------------------------------------------
(* Opaque strings, truthiness, JSON values *)

Txt(v) == [kind |-> "text", value |-> v]

JNum(n) == [kind |-> "number", value |-> n]

\* ToBoolean
Truthy(v) ==
    CASE v.kind = "undefined" -> FALSE
      [] v.kind = "null" -> FALSE
      [] v.kind = "text" -> v.value # ""
      [] v.kind = "number" -> v.value # 0
      [] OTHER -> TRUE

\* typeof v === "string"
IsString(v) == v.kind = "text"

-----------------------------------------------------------------------------
(* The mock catalog *)

MOCK_VIDEOS(mode) ==
    CASE mode = sText ->
           [videoUrl |-> "https://storage.googleapis.com/coverr-main/mp4/Mt_Baker.mp4",
            posterUrl |-> "https://images.unsplash.com/photo-1500530855697-b586d89ba3ee?auto=format&fit=crop&w=1200&q=80"]
      [] mode = sImage ->
           [videoUrl |-> "https://storage.googleapis.com/coverr-main/mp4/Night_Sky.mp4",
            posterUrl |-> "https://images.unsplash.com/photo-1489515217757-5fd1be406fef?auto=format&fit=crop&w=1200&q=80"]
      [] mode = sReference ->
           [videoUrl |-> "https://storage.googleapis.com/coverr-main/mp4/Lighthouse.mp4",
            posterUrl |-> "https://images.unsplash.com/photo-1500530855697-b586d89ba3ee?auto=format&fit=crop&w=1200&q=80"]

\* a metadata object with duration and guidance exchanged
Metadata_swapped(payload_) ==
    [duration |-> payload_.guidance,
     aspectRatio |-> payload_.aspectRatio,
     guidance |-> payload_.duration]

\* the metadata object every result carries
Metadata(payload_) ==
    [duration |-> payload_.duration,
     aspectRatio |-> payload_.aspectRatio,
     guidance |-> payload_.guidance]

\* createMockResponse that always picks the text entry of the catalog
createMockResponse_textEntry(mode, jobId_, payload_) ==
    [jobId |-> jobId_,
     videoUrl |-> Txt(MOCK_VIDEOS(sText).videoUrl),
     posterUrl |-> Txt(MOCK_VIDEOS(sText).posterUrl),
     mode |-> mode,
     prompt |-> payload_.prompt,
     status |-> "mock",
     metadata |-> Metadata(payload_)]

createMockResponse(mode, jobId_, payload_) ==
    LET mock == MOCK_VIDEOS(mode)
    IN  [jobId |-> jobId_,
         videoUrl |-> Txt(mock.videoUrl),
         posterUrl |-> Txt(mock.posterUrl),
         mode |-> mode,
         prompt |-> payload_.prompt,
         status |-> "mock",
         metadata |-> Metadata(payload_)]

-----------------------------------------------------------------------------
(* The asset encoder *)

MiB == 1024 * 1024

ImageMaxSizeBytes == 8 * MiB

ReferenceMaxSizeBytes == 25 * MiB

RECURSIVE IntToString(_)
IntToString(n) ==
    IF n < 10 THEN Digits[n + 1]
    ELSE IntToString(n \div 10) \o Digits[(n % 10) + 1]

\* (maxSizeBytes / (1024 * 1024)).toFixed(1)
toFixed1(maxSizeBytes) ==
    LET tenths == (maxSizeBytes * 10 + (MiB \div 2)) \div MiB
    IN  IntToString(tenths \div 10) \o "." \o IntToString(tenths % 10)

\* Buffer.from(content).toString("base64") of an opaque content
Base64(content) == "b64(" \o content \o ")"

MimeOf(file) == IF file.type # "" THEN file.type ELSE "application/octet-stream"

\* a size check that also refuses a file of exactly the ceiling
exceedsLimit_inclusive(file, maxSizeBytes) == file.size >= maxSizeBytes

\* the size check of encodeFile
exceedsLimit(file, maxSizeBytes) == file.size > maxSizeBytes

sizeError(maxSizeBytes) ==
    "Uploaded file exceeds the allowed size of " \o toFixed1(maxSizeBytes) \o "MB."

\* what encodeFile returns once the content is read
encoded(file) ==
    [base64 |-> Txt("data:" \o MimeOf(file) \o ";base64," \o Base64(file.content)),
     mimeType |-> Txt(MimeOf(file))]

-----------------------------------------------------------------------------
(* The provider calls.  `fetched` is what the fetch produced:               *)
(*   [kind |-> "reject"]                     the fetch rejected            *)
(*   [kind |-> "response", ok, json]         a response; json is its body  *)
(*                                           or [kind |-> "invalid"]       *)

FalRequest(payload_, key) ==
    [provider |-> "fal",
     url |-> "https://fal.run/fal-ai/flux-pro/video",
     authorization |-> "Key " \o key.value,
     body |-> [prompt |-> payload_.prompt,
               negative_prompt |-> payload_.negativePrompt,
               duration |-> payload_.duration,
               guidance_scale |-> payload_.guidance,
               aspect_ratio |-> payload_.aspectRatio,
               image_url |-> payload_.imageBase64,
               video_url |-> payload_.referenceBase64]]

ReplicateRequest(payload_, key) ==
    [provider |-> "replicate",
     url |-> "https://api.replicate.com/v1/predictions",
     authorization |-> "Bearer " \o key.value,
     body |-> [version |-> "luma-labs/luma-ray-2",
               input |-> [prompt |-> payload_.prompt,
                          negative_prompt |-> payload_.negativePrompt,
                          duration |-> payload_.duration,
                          guidance |-> payload_.guidance,
                          aspect_ratio |-> payload_.aspectRatio,
                          image |-> payload_.imageBase64,
                          reference |-> payload_.referenceBase64],
               wait |-> TRUE]]

Completed(jobId_, videoUrl, posterUrl, payload_) ==
    [jobId |-> jobId_,
     videoUrl |-> videoUrl,
     posterUrl |-> posterUrl,
     mode |-> payload_.mode,
     prompt |-> payload_.prompt,
     status |-> "completed",
     metadata |-> Metadata(payload_)]

\* data.video?.url; the caller has excluded a null data
falVideoUrl(data) ==
    IF data.kind = "object" /\ data.video.kind = "object" THEN data.video.url
    ELSE Undefined

\* data.preview ?? null
falPreview(data) ==
    IF data.preview.kind \in {"undefined", "null"} THEN Null ELSE data.preview

\* generateWithFal without the check that the response carries a video URL
generateWithFal_noUrlCheck(payload_, jobId_, fetched) ==
    IF fetched.kind = "reject" THEN Null
    ELSE IF ~fetched.ok THEN Null
    ELSE IF fetched.json.kind \in {"invalid", "null"} THEN Null
    ELSE Completed(jobId_, falVideoUrl(fetched.json), falPreview(fetched.json), payload_)

\* the value generateWithFal returns; Null stands for every path through its catch
generateWithFal(payload_, jobId_, fetched) ==
    IF fetched.kind = "reject" THEN Null
    ELSE IF ~fetched.ok THEN Null
    ELSE IF fetched.json.kind \in {"invalid", "null"} THEN Null
    ELSE IF ~Truthy(falVideoUrl(fetched.json)) THEN Null
    ELSE Completed(jobId_, falVideoUrl(fetched.json), falPreview(fetched.json), payload_)

\* data?.output
replicateOutput(data) == IF data.kind = "object" THEN data.output ELSE Undefined

\* videoCandidate; the caller has excluded a null output
videoCandidate(output) ==
    IF output.kind = "object" THEN output.video
    ELSE IF output.kind = "array"
         THEN (IF Len(output.items) > 0 THEN output.items[1] ELSE Undefined)
    ELSE Undefined

\* the posterUrl expression of generateWithReplicate
replicatePoster(output, payload_) ==
    IF output.kind = "object" /\ IsString(output.poster) /\ Truthy(output.poster)
    THEN output.poster
    ELSE IF Truthy(payload_.imageBase64) THEN payload_.imageBase64
    ELSE Null

\* the value generateWithReplicate returns; Null stands for every path through its catch
generateWithReplicate(payload_, jobId_, fetched) ==
    IF fetched.kind = "reject" THEN Null
    ELSE IF ~fetched.ok THEN Null
    ELSE IF fetched.json.kind = "invalid" THEN Null
    ELSE LET output == replicateOutput(fetched.json)
         IN  IF output.kind = "null" THEN Null
             ELSE IF ~IsString(videoCandidate(output)) \/ ~Truthy(videoCandidate(output))
             THEN Null
             ELSE Completed(jobId_, videoCandidate(output),
                            replicatePoster(output, payload_), payload_)

-----------------------------------------------------------------------------
(* Inputs *)

NumUUIDs == 2

\* the values randomUUID() may return
UUIDs == {IntToString(i) : i \in 1..NumUUIDs}

\* a credential: unset, set to the empty string, or set
FalKeyValues == {Undefined, Txt(""), Txt("fal-key")}

ReplicateKeyValues == {Undefined, Txt(""), Txt("replicate-token")}

ModeInputs ==
    {Null, Str(<<>>), Str(sText), Str(<<"T", "E", "X", "T">>), Str(sImage),
     Str(sReference), Str(<<" ", "t", "e", "x", "t">>), Str(<<"v", "i", "d", "e", "o">>)}

PromptInputs ==
    {Null, Str(<<>>), Str(<<" ", "\t">>), Str(<<"a">>), Str(<<" ", "a", " ">>)}

ImageInputs ==
    {Null, Str(<<"a">>),
     FileOf(1024, "image/png", "IMG1"),
     FileOf(ImageMaxSizeBytes, "", "IMG2"),
     FileOf(ImageMaxSizeBytes + 1, "image/png", "IMG3")}

ReferenceInputs ==
    {Null, Str(<<"a">>),
     FileOf(ImageMaxSizeBytes + 1, "video/mp4", "VID1"),
     FileOf(ReferenceMaxSizeBytes, "", "VID2"),
     FileOf(ReferenceMaxSizeBytes + 1, "video/mp4", "VID3")}

DurationInputs ==
    {Null, Str(<<"7", ".", "5">>), Str(<<"2", "0">>), Str(<<"a", "b", "c">>)}

GuidanceInputs ==
    {Null, Str(<<"2", ".", "5">>), Str(<<"-", "1">>), Str(<<"1", "6">>)}

AspectRatioInputs ==
    {Null, Str(<<"2", ".", "3", "9", ":", "1">>),
     Str(<<"w", "i", "d", "e">>), Str(<<"4", ":", "5", " ">>)}

\* forms that vary the mode, the prompt and the uploads
UploadForms ==
    [mode : ModeInputs, prompt : PromptInputs, negativePrompt : {Null},
     duration : {Str(<<"6">>)}, guidance : {Str(<<"7">>)},
     aspectRatio : {Str(sDefaultRatio)},
     image : ImageInputs, referenceVideo : ReferenceInputs]

\* forms that vary the numeric parameters and the aspect ratio
ParameterForms ==
    [mode : {Str(sText)}, prompt : {Str(<<" ", "a", " ">>)},
     negativePrompt : {Str(<<" ", "b">>)},
     duration : DurationInputs, guidance : GuidanceInputs,
     aspectRatio : AspectRatioInputs,
     image : {Null}, referenceVideo : {Null}]

Forms == UploadForms \cup ParameterForms

Requests ==
    {[body |-> "malformed", form |-> Null]} \cup
    {[body |-> "form", form |-> f] : f \in Forms}

URLs == {"https://cdn.example/video.mp4"}

Previews == {Undefined, Txt("https://cdn.example/preview.jpg")}

HttpResponse(ok, json) == [kind |-> "response", ok |-> ok, json |-> json]

FalData(video, preview) == [kind |-> "object", video |-> video, preview |-> preview]

FalVideo(url) == [kind |-> "object", url |-> url]

\* what the fetch of generateWithFal may produce
FalOutcomes ==
    {[kind |-> "reject"],
     HttpResponse(FALSE, [kind |-> "invalid"]),
     HttpResponse(TRUE, [kind |-> "invalid"]),
     HttpResponse(TRUE, Null),
     HttpResponse(TRUE, FalData(Undefined, Undefined)),
     HttpResponse(TRUE, FalData(Null, Undefined)),
     HttpResponse(TRUE, FalData(FalVideo(Undefined), Undefined)),
     HttpResponse(TRUE, FalData(FalVideo(Txt("")), Undefined)),
     HttpResponse(TRUE, FalData(FalVideo(JNum(42)), Undefined))} \cup
    {HttpResponse(TRUE, FalData(FalVideo(Txt(u)), p)) : u \in URLs, p \in Previews}

ReplicateData(output) == [kind |-> "object", output |-> output]

OutputObject(video, poster) == [kind |-> "object", video |-> video, poster |-> poster]

OutputArray(items) == [kind |-> "array", items |-> items]

\* what the fetch of generateWithReplicate may produce
ReplicateOutcomes ==
    {[kind |-> "reject"],
     HttpResponse(FALSE, [kind |-> "invalid"]),
     HttpResponse(TRUE, [kind |-> "invalid"]),
     HttpResponse(TRUE, Null),
     HttpResponse(TRUE, ReplicateData(Undefined)),
     HttpResponse(TRUE, ReplicateData(Null)),
     HttpResponse(TRUE, ReplicateData(Txt("https://cdn.example/video.mp4"))),
     HttpResponse(TRUE, ReplicateData(OutputObject(Undefined, Undefined))),
     HttpResponse(TRUE, ReplicateData(OutputObject(Txt(""), Undefined))),
     HttpResponse(TRUE, ReplicateData(OutputObject(JNum(42), Undefined))),
     HttpResponse(TRUE, ReplicateData(OutputArray(<<>>))),
     HttpResponse(TRUE, ReplicateData(OutputArray(<<JNum(42)>>)))} \cup
    {HttpResponse(TRUE, ReplicateData(OutputObject(Txt(u), p))) : u \in URLs, p \in Previews} \cup
    {HttpResponse(TRUE, ReplicateData(OutputObject(Txt(u), JNum(7)))) : u \in URLs} \cup
    {HttpResponse(TRUE, ReplicateData(OutputArray(<<Txt(u)>>))) : u \in URLs}

-----------------------------------------------------------------------------
(* The POST handler *)

Json(status, body) == [status |-> status, body |-> body]

\* lines 46-50 and 59-66: the payload built from the form once the mode is parsed
normalise(form, mode) ==
    [mode |-> mode,
     prompt |-> trim(StringOr(form.prompt, <<>>)),
     negativePrompt |-> trim(StringOr(form.negativePrompt, <<>>)),
     duration |-> clampNumber(form.duration, 3, 12, 6),
     guidance |-> clampNumber(form.guidance, 1, 15, 7),
     aspectRatio |-> validateAspectRatio(StringOr(form.aspectRatio, sDefaultRatio)),
     imageBase64 |-> Undefined,
     imageMimeType |-> Undefined,
     referenceBase64 |-> Undefined,
     referenceMimeType |-> Undefined]

\* the status the catch of POST answers a thrown Error with
catchStatus == 500

\* a catch that lets the thrown Error leave the handler
Catch_rethrow(message) ==
    /\ pc' = "escaped"
    /\ UNCHANGED <<logged, response>>

\* the catch of POST: the thrown Error is logged and answered
Catch(message) ==
    /\ logged' = Append(logged, "[generate-route]")
    /\ response' = Json(catchStatus, [error |-> message])
    /\ pc' = "done"

\* an early return with a validation message
Reject(message) ==
    /\ response' = Json(400, [error |-> message])
    /\ pc' = "done"
    /\ UNCHANGED logged

\* line 44: await request.formData()
ReadForm ==
    /\ pc = "start"
    /\ IF request.body = "malformed"
       THEN Catch("Failed to parse body as FormData.")
       ELSE pc' = "normalize" /\ UNCHANGED <<logged, response>>
    /\ UNCHANGED <<FAL_KEY, REPLICATE_KEY, request, payload, jobId, providerResult,
                   fetches, inflight, lastResponse, filesRead, mockBuilt>>
    /\ UNCHANGED pureVars
    /\ UNCHANGED pageVars

\* a prompt check that does not look at the mode
promptMissing_anyMode(p) == p.prompt = <<>>

\* the condition of line 52: a text request without a prompt
promptMissing(p) == p.mode = sText /\ p.prompt = <<>>

\* lines 45-66: parse the mode, normalise the fields, require the prompt of a text request
Normalize ==
    /\ pc = "normalize"
    /\ LET mode == parseMode(request.form.mode)
       IN  IF ~mode.ok
           THEN Catch(mode.error) /\ UNCHANGED payload
           ELSE LET p == normalise(request.form, mode.value)
                IN  IF promptMissing(p)
                    THEN /\ Reject("A descriptive prompt is required for text-to-video generations.")
                         /\ UNCHANGED payload
                    ELSE /\ payload' = p
                         /\ pc' = "upload"
                         /\ UNCHANGED <<logged, response>>
    /\ UNCHANGED <<FAL_KEY, REPLICATE_KEY, request, jobId, providerResult,
                   fetches, inflight, lastResponse, filesRead, mockBuilt>>
    /\ UNCHANGED pureVars
    /\ UNCHANGED pageVars

\* an upload lookup that reads the image field in every mode
uploadField_image(mode) == "image"

\* the upload a mode requires: its form field, its ceiling, its message when absent
uploadField(mode) == IF mode = sImage THEN "image" ELSE "referenceVideo"

uploadLimit(mode) == IF mode = sImage THEN ImageMaxSizeBytes ELSE ReferenceMaxSizeBytes

uploadRequired(mode) ==
    IF mode = sImage
    THEN "Image-to-video generations require an image upload."
    ELSE "Reference-to-video generations require a reference video upload."

\* lines 68-95 up to the await in encodeFile: presence check, size check, start of the read
CheckUpload ==
    /\ pc = "upload"
    /\ IF payload.mode = sText
       THEN pc' = "jobid" /\ UNCHANGED <<logged, response, filesRead>>
       ELSE LET file == request.form[uploadField(payload.mode)]
            IN  IF ~IsFile(file)
                THEN Reject(uploadRequired(payload.mode)) /\ UNCHANGED filesRead
                ELSE IF exceedsLimit(file, uploadLimit(payload.mode))
                THEN Catch(sizeError(uploadLimit(payload.mode))) /\ UNCHANGED filesRead
                ELSE /\ filesRead' = filesRead \cup {uploadField(payload.mode)}
                     /\ pc' = "reading"
                     /\ UNCHANGED <<logged, response>>
    /\ UNCHANGED <<FAL_KEY, REPLICATE_KEY, request, payload, jobId, providerResult,
                   fetches, inflight, lastResponse, mockBuilt>>
    /\ UNCHANGED pureVars
    /\ UNCHANGED pageVars

\* a read that stores every encoded file in the image slot of the payload
FileRead_imageSlot ==
    /\ pc = "reading"
    /\ LET e == encoded(request.form[uploadField(payload.mode)])
       IN  payload' = [payload EXCEPT !.imageBase64 = e.base64, !.imageMimeType = e.mimeType]
    /\ pc' = "jobid"
    /\ UNCHANGED <<FAL_KEY, REPLICATE_KEY, request, jobId, providerResult, fetches,
                   inflight, lastResponse, filesRead, mockBuilt, logged, response>>
    /\ UNCHANGED pureVars
    /\ UNCHANGED pageVars

\* lines 153-158 and 80-81 / 93-94: the content is read and the asset stored
FileRead ==
    /\ pc = "reading"
    /\ LET e == encoded(request.form[uploadField(payload.mode)])
       IN  payload' =
             IF payload.mode = sImage
             THEN [payload EXCEPT !.imageBase64 = e.base64, !.imageMimeType = e.mimeType]
             ELSE [payload EXCEPT !.referenceBase64 = e.base64,
                                  !.referenceMimeType = e.mimeType]
    /\ pc' = "jobid"
    /\ UNCHANGED <<FAL_KEY, REPLICATE_KEY, request, jobId, providerResult, fetches,
                   inflight, lastResponse, filesRead, mockBuilt, logged, response>>
    /\ UNCHANGED pureVars
    /\ UNCHANGED pageVars

\* line 97
GenerateJobId ==
    /\ pc = "jobid"
    /\ \E u \in UUIDs : jobId' = Txt("job_" \o u)
    /\ pc' = "gate"
    /\ UNCHANGED <<FAL_KEY, REPLICATE_KEY, request, payload, providerResult, fetches,
                   inflight, lastResponse, filesRead, mockBuilt, logged, response>>
    /\ UNCHANGED pureVars
    /\ UNCHANGED pageVars

\* a gate that enters the router whatever the credentials
anyCredential_always == TRUE

\* the condition of lines 99-100
anyCredential == Truthy(FAL_KEY) \/ Truthy(REPLICATE_KEY)

\* lines 99-100: the router is entered only with a credential
EnterRouter ==
    /\ pc = "gate"
    /\ IF anyCredential
       THEN pc' = "tryFal" /\ UNCHANGED providerResult
       ELSE pc' = "respond" /\ providerResult' = Null
    /\ UNCHANGED <<FAL_KEY, REPLICATE_KEY, request, payload, jobId, fetches,
                   inflight, lastResponse, filesRead, mockBuilt, logged, response>>
    /\ UNCHANGED pureVars
    /\ UNCHANGED pageVars

\* lines 163-164 and 181: provider A is called when its credential is set
TryFal ==
    /\ pc = "tryFal"
    /\ IF Truthy(FAL_KEY)
       THEN /\ fetches' = Append(fetches, FalRequest(payload, FAL_KEY))
            /\ inflight' = inflight \cup {"fal"}
            /\ pc' = "awaitFal"
       ELSE pc' = "tryReplicate" /\ UNCHANGED <<fetches, inflight>>
    /\ UNCHANGED <<FAL_KEY, REPLICATE_KEY, request, payload, jobId, providerResult,
                   lastResponse, filesRead, mockBuilt, logged, response>>
    /\ UNCHANGED pureVars
    /\ UNCHANGED pageVars

\* tryExternalGeneration without the early return of line 165
afterFal_noReturn(r) == "tryReplicate"

\* where tryExternalGeneration goes after provider A returned r (line 165)
afterFal(r) == IF r # Null THEN "respond" ELSE "tryReplicate"

\* lines 198-228 and 165: the fetch settles
FalSettles ==
    /\ pc = "awaitFal"
    /\ \E o \in FalOutcomes :
         LET r == generateWithFal(payload, jobId, o)
         IN  /\ lastResponse' = o
             /\ inflight' = inflight \ {"fal"}
             /\ pc' = afterFal(r)
             /\ IF r # Null
                THEN providerResult' = r /\ UNCHANGED logged
                ELSE /\ logged' = Append(logged, "[generate-route][fal]")
                     /\ UNCHANGED providerResult
    /\ UNCHANGED <<FAL_KEY, REPLICATE_KEY, request, payload, jobId, fetches,
                   filesRead, mockBuilt, response>>
    /\ UNCHANGED pureVars
    /\ UNCHANGED pageVars

\* lines 168-169, 233 and 176: provider B is called when its credential is set
TryReplicate ==
    /\ pc = "tryReplicate"
    /\ IF Truthy(REPLICATE_KEY)
       THEN /\ fetches' = Append(fetches, ReplicateRequest(payload, REPLICATE_KEY))
            /\ inflight' = inflight \cup {"replicate"}
            /\ pc' = "awaitReplicate"
            /\ UNCHANGED providerResult
       ELSE /\ providerResult' = Null
            /\ pc' = "respond"
            /\ UNCHANGED <<fetches, inflight>>
    /\ UNCHANGED <<FAL_KEY, REPLICATE_KEY, request, payload, jobId,
                   lastResponse, filesRead, mockBuilt, logged, response>>
    /\ UNCHANGED pureVars
    /\ UNCHANGED pageVars

\* lines 254-299, 170 and 176: the fetch settles
ReplicateSettles ==
    /\ pc = "awaitReplicate"
    /\ \E o \in ReplicateOutcomes :
         LET r == generateWithReplicate(payload, jobId, o)
         IN  /\ lastResponse' = o
             /\ inflight' = inflight \ {"replicate"}
             /\ providerResult' = r
             /\ logged' = IF r # Null THEN logged
                          ELSE Append(logged, "[generate-route][replicate]")
    /\ pc' = "respond"
    /\ UNCHANGED <<FAL_KEY, REPLICATE_KEY, request, payload, jobId, fetches,
                   filesRead, mockBuilt, response>>
    /\ UNCHANGED pureVars
    /\ UNCHANGED pageVars

\* lines 102-107: the provider's result, or the mock fallback
Respond ==
    /\ pc = "respond"
    /\ IF providerResult # Null
       THEN response' = Json(200, providerResult) /\ UNCHANGED mockBuilt
       ELSE /\ mockBuilt' = mockBuilt + 1
            /\ response' = Json(200, createMockResponse(payload.mode, jobId, payload))
    /\ pc' = "done"
    /\ UNCHANGED <<FAL_KEY, REPLICATE_KEY, request, payload, jobId, providerResult,
                   fetches, inflight, lastResponse, filesRead, logged>>
    /\ UNCHANGED pureVars
    /\ UNCHANGED pageVars

-----------------------------------------------------------------------------
(* The studio page, src/app/src/app/page.tsx.  `home` holds the state of   *)
(* the Home component, `submitted` counts the fetches issued (the i-th is  *)
(* request i), and `pendingFetches` maps each request whose fetch has not  *)
(* settled to the FormData it sent.                                        *)

MaxSubmits == 2

sEmpty == <<>>

PagePrompts == {sEmpty, <<"a">>}

PNG == FileOf(1024, "image/png", "PNG")

MP4 == FileOf(2048, "video/mp4", "MP4")

\* event.target.files?.[0] of a file input
PickedFiles == {Undefined, PNG, MP4}

\* lines 92-103: the initial state of the component
HomeInit ==
    [mode |-> sText,
     prompt |-> sEmpty,
     negativePrompt |-> sEmpty,
     duration |-> 6,
     guidance |-> 7,
     aspectRatio |-> sDefaultRatio,
     imageFile |-> Null,
     referenceVideoFile |-> Null,
     result |-> Null,
     statusMessage |-> Null,
     error |-> Null,
     isPending |-> FALSE]

PageIdle ==
    /\ home = HomeInit
    /\ submitted = 0
    /\ pendingFetches = <<>>

PureIdle == arg = Null /\ out = Undefined /\ fn = "none"

Init ==
    /\ FAL_KEY \in FalKeyValues
    /\ REPLICATE_KEY \in ReplicateKeyValues
    /\ request \in Requests
    /\ pc = "start"
    /\ payload = Undefined
    /\ jobId = Undefined
    /\ providerResult = Undefined
    /\ fetches = <<>>
    /\ inflight = {}
    /\ lastResponse = Undefined
    /\ filesRead = {}
    /\ mockBuilt = 0
    /\ logged = <<>>
    /\ response = Undefined
    /\ PureIdle
    /\ PageIdle

Next ==
    \/ ReadForm
    \/ Normalize
    \/ CheckUpload
    \/ FileRead
    \/ GenerateJobId
    \/ EnterRouter
    \/ TryFal
    \/ FalSettles
    \/ TryReplicate
    \/ ReplicateSettles
    \/ Respond

Spec == Init /\ [][Next]_vars

\* the handler under the scheduling the claims on termination assume: a step that can
\* be taken is taken, and every provider call that was issued settles
\* over the requests that take each path of the handler once
LiveForms ==
    {f \in UploadForms :
        /\ f.mode \in {Null, Str(sText), Str(sImage), Str(sReference)}
        /\ f.prompt \in {Null, Str(<<"a">>)}
        /\ f.image \in {Null, FileOf(1024, "image/png", "IMG1"),
                        FileOf(ImageMaxSizeBytes + 1, "image/png", "IMG3")}
        /\ f.referenceVideo \in {Null, FileOf(ReferenceMaxSizeBytes, "", "VID2")}}

LiveRequests ==
    {[body |-> "malformed", form |-> Null]} \cup
    {[body |-> "form", form |-> f] : f \in LiveForms}

InitLive == Init /\ request \in LiveRequests

SpecLive == InitLive /\ [][Next]_vars /\ WF_vars(Next)

-----------------------------------------------------------------------------
(* The pure functions of the normaliser, applied to every short string *)

\* strings over alphabet of length at most n
StringsUpTo(alphabet, n) == UNION {[1..k -> alphabet] : k \in 0..n}

MaxNumLen == 3

NumAlphabet == {"0", "1", "2", "3", "5", ".", "-", "+", " ", "a"}

\* what form.get("duration") or form.get("guidance") may be
NumberInputs ==
    {Null, FileOf(1024, "text/plain", "TXT1"), Str(InfinityLiteral)} \cup
    {Str(chars) : chars \in StringsUpTo(NumAlphabet, MaxNumLen)}

MaxRatioLen == 7

RatioAlphabet == {"1", ".", ":", "x"}

\* what form.get("aspectRatio") may be
RatioInputs ==
    {Null, FileOf(1024, "text/plain", "TXT1")} \cup
    {Str(chars) : chars \in StringsUpTo(RatioAlphabet, MaxRatioLen)}

HandlerIdle ==
    /\ FAL_KEY = Undefined
    /\ REPLICATE_KEY = Undefined
    /\ request = [body |-> "none", form |-> Null]
    /\ pc = "idle"
    /\ payload = Undefined
    /\ jobId = Undefined
    /\ providerResult = Undefined
    /\ fetches = <<>>
    /\ inflight = {}
    /\ lastResponse = Undefined
    /\ filesRead = {}
    /\ mockBuilt = 0
    /\ logged = <<>>
    /\ response = Undefined

\* line 48: const duration = clampNumber(form.get("duration"), 3, 12, 6)
ClampDuration ==
    /\ fn = "none"
    /\ out' = clampNumber(arg, 3, 12, 6)
    /\ fn' = "duration"
    /\ UNCHANGED arg
    /\ UNCHANGED handlerVars
    /\ UNCHANGED pageVars

\* line 49: const guidance = clampNumber(form.get("guidance"), 1, 15, 7)
ClampGuidance ==
    /\ fn = "none"
    /\ out' = clampNumber(arg, 1, 15, 7)
    /\ fn' = "guidance"
    /\ UNCHANGED arg
    /\ UNCHANGED handlerVars
    /\ UNCHANGED pageVars

InitClamp ==
    HandlerIdle /\ PageIdle /\ arg \in NumberInputs /\ out = Undefined /\ fn = "none"

NextClamp == ClampDuration \/ ClampGuidance

SpecClamp == InitClamp /\ [][NextClamp]_vars

\* line 50: validateAspectRatio(String(form.get("aspectRatio") ?? "16:9"))
ValidateAspect ==
    /\ fn = "none"
    /\ out' = validateAspectRatio(StringOr(arg, sDefaultRatio))
    /\ fn' = "aspectRatio"
    /\ UNCHANGED arg
    /\ UNCHANGED handlerVars
    /\ UNCHANGED pageVars

InitAspect ==
    HandlerIdle /\ PageIdle /\ arg \in RatioInputs /\ out = Undefined /\ fn = "none"

NextAspect == ValidateAspect

SpecAspect == InitAspect /\ [][NextAspect]_vars

-----------------------------------------------------------------------------
(* The handlers of the studio page *)

\* file.type.startsWith(prefix)
startsWith(type, prefix) ==
    IF prefix = "image/" THEN type \in {"image/png"} ELSE type \in {"video/mp4"}

\* lines 238-239: a mode tab is clicked
SetMode ==
    /\ \E m \in {sText, sImage, sReference} : home' = [home EXCEPT !.mode = m]
    /\ UNCHANGED <<submitted, pendingFetches>>
    /\ UNCHANGED handlerVars
    /\ UNCHANGED pureVars

\* line 289: the prompt is edited
SetPrompt ==
    /\ \E p \in PagePrompts : home' = [home EXCEPT !.prompt = p]
    /\ UNCHANGED <<submitted, pendingFetches>>
    /\ UNCHANGED handlerVars
    /\ UNCHANGED pureVars

\* lines 110-135: the state after handleFileChange(type) has handled a picked file
fileChanged(h, type, file) ==
    IF file = Undefined
    THEN (IF type = "image" THEN [h EXCEPT !.imageFile = Null]
          ELSE [h EXCEPT !.referenceVideoFile = Null])
    ELSE IF type = "image" /\ ~startsWith(file.type, "image/")
    THEN [h EXCEPT !.error = Txt("Please upload a valid image file (PNG, JPEG, or WebP).")]
    ELSE IF type = "reference" /\ ~startsWith(file.type, "video/")
    THEN [h EXCEPT !.error =
                     Txt("Reference clips must be provided as MP4 or WebM video files.")]
    ELSE IF type = "image"
    THEN [h EXCEPT !.error = Null, !.imageFile = file]
    ELSE [h EXCEPT !.error = Null, !.referenceVideoFile = file]

\* lines 349-369 and 110-135: the upload field of the current mode receives a file
HandleFileChange ==
    /\ home.mode \in {sImage, sReference}
    /\ \E file \in PickedFiles :
         LET type == IF home.mode = sImage THEN "image" ELSE "reference"
         IN  home' = fileChanged(home, type, file)
    /\ UNCHANGED <<submitted, pendingFetches>>
    /\ UNCHANGED handlerVars
    /\ UNCHANGED pureVars

\* the map f with key k set to v, and with key k removed
With(f, k, v) == [x \in DOMAIN f \cup {k} |-> IF x = k THEN v ELSE f[x]]

Without(f, k) == [x \in DOMAIN f \ {k} |-> f[x]]

\* a handleSubmit without the upload checks of lines 140-148
submitError_none(h) == Null

\* lines 140-148: the message handleSubmit refuses the submission with, if any
submitError(h) ==
    IF h.mode = sImage /\ h.imageFile = Null
    THEN Txt("Upload an image to drive the animation.")
    ELSE IF h.mode = sReference /\ h.referenceVideoFile = Null
    THEN Txt("Upload a reference motion clip.")
    ELSE Null

\* lines 154-168: the FormData of a submission; get() of a field not appended is null
FormDataOf(h) ==
    [mode |-> Str(h.mode),
     prompt |-> Str(h.prompt),
     negativePrompt |-> Str(h.negativePrompt),
     duration |-> Str(<<IntToString(h.duration)>>),
     guidance |-> Str(<<IntToString(h.guidance)>>),
     aspectRatio |-> Str(h.aspectRatio),
     image |-> IF h.imageFile # Null /\ h.mode = sImage THEN h.imageFile ELSE Null,
     referenceVideo |-> IF h.referenceVideoFile # Null /\ h.mode = sReference
                        THEN h.referenceVideoFile ELSE Null]

\* line 151; the three dots stand for the horizontal ellipsis character
sPreparing == "Preparing generation pipeline..."

\* lines 372-375 and 286: the form can be submitted
canSubmit(h) ==
    /\ ~h.isPending
    /\ ~(h.mode = sText /\ h.prompt = sEmpty)

\* lines 137-171: the form is submitted; the updates of the transition callback are
\* applied in call order, isPending is set by startTransition
HandleSubmit ==
    /\ canSubmit(home)
    /\ IF submitError(home) # Null
       THEN /\ home' = [home EXCEPT !.error = submitError(home)]
            /\ UNCHANGED <<submitted, pendingFetches>>
       ELSE /\ submitted < MaxSubmits
            /\ home' = [home EXCEPT !.isPending = TRUE,
                                    !.statusMessage = Txt(sPreparing),
                                    !.error = Null]
            /\ submitted' = submitted + 1
            /\ pendingFetches' = With(pendingFetches, submitted + 1, FormDataOf(home))
    /\ UNCHANGED handlerVars
    /\ UNCHANGED pureVars

\* line 150, useTransition: the transition ends when the updates of its synchronous
\* callback are committed; the callback returns before the fetch settles
TransitionCommits ==
    /\ home.isPending
    /\ home' = [home EXCEPT !.isPending = FALSE]
    /\ UNCHANGED <<submitted, pendingFetches>>
    /\ UNCHANGED handlerVars
    /\ UNCHANGED pureVars

\* the job id of the result that answers request i
JobOf(i) == Txt("job_" \o IntToString(i))

\* what the fetch of a form can settle with: a rejection, a response that is not OK
\* without a JSON body, the answer of the endpoint to a body that arrived damaged, and
\* the answer of the endpoint to the form
FetchOutcomes(form) ==
    {[kind |-> "reject", message |-> "Failed to fetch"],
     HttpResponse(FALSE, [kind |-> "invalid"]),
     HttpResponse(FALSE, [kind |-> "object", error |-> "Failed to parse body as FormData."])}
    \cup
    (LET mode == parseMode(form.mode)
     IN  IF ~mode.ok
         THEN {HttpResponse(FALSE, [kind |-> "object", error |-> mode.error])}
         ELSE IF promptMissing(normalise(form, mode.value))
         THEN {HttpResponse(FALSE,
                 [kind |-> "object",
                  error |-> "A descriptive prompt is required for text-to-video generations."])}
         ELSE {HttpResponse(TRUE, [kind |-> "object", status |-> s, mode |-> mode.value])
                 : s \in {"mock", "completed"}})

\* lines 173-179: the error of a response that is not OK
responseError(json) == IF json.kind = "object" THEN json.error ELSE "Generation failed."

\* lines 181-187: the status message of a result
resultMessage(status) ==
    IF status = "mock"
    THEN "Using mock renderer. Supply a provider key to enable live AI generation."
    ELSE "Generation completed successfully."

\* lines 172-191: the state after the promise chain of request i has run on outcome o
settled(h, i, o) ==
    IF o.kind = "reject" THEN [h EXCEPT !.error = Txt(o.message)]
    ELSE IF ~o.ok THEN [h EXCEPT !.error = Txt(responseError(o.json))]
    ELSE [h EXCEPT !.result = [jobId |-> JobOf(i), mode |-> o.json.mode,
                               status |-> o.json.status],
                   !.statusMessage = Txt(resultMessage(o.json.status))]

\* lines 172-191: the fetch of a request settles and its callbacks set the state
FetchSettles ==
    /\ \E i \in DOMAIN pendingFetches :
         \E o \in FetchOutcomes(pendingFetches[i]) :
            /\ home' = settled(home, i, o)
            /\ pendingFetches' = Without(pendingFetches, i)
    /\ UNCHANGED submitted
    /\ UNCHANGED handlerVars
    /\ UNCHANGED pureVars

NextPage ==
    \/ SetMode
    \/ SetPrompt
    \/ HandleFileChange
    \/ HandleSubmit
    \/ TransitionCommits
    \/ FetchSettles

InitPage == HandlerIdle /\ PureIdle /\ PageIdle

SpecPage == InitPage /\ [][NextPage]_vars

-----------------------------------------------------------------------------
(* What the claims speak of, stated from the interface of the endpoint *)

\* the form's mode field holds token m in any letter case
IsMode(form, m) ==
    /\ form.mode.kind = "string"
    /\ Len(form.mode.chars) = Len(m)
    /\ \A i \in 1..Len(m) :
         \/ form.mode.chars[i] = m[i]
         \/ \E k \in DOMAIN LowerCase : LowerCase[k] = m[i] /\ UpperCase[k] = form.mode.chars[i]

\* the field is absent, empty or holds white space only
Blank(value) ==
    \/ value.kind = "null"
    \/ value.kind = "string" /\ \A i \in DOMAIN value.chars : value.chars[i] \in WhiteSpace

\* the request satisfies the constraints of the endpoint's form fields
ValidForm(form) ==
    \/ IsMode(form, sText) /\ ~Blank(form.prompt)
    \/ IsMode(form, sImage) /\ IsFile(form.image) /\ form.image.size <= 8 * 1024 * 1024
    \/ /\ IsMode(form, sReference)
       /\ IsFile(form.referenceVideo)
       /\ form.referenceVideo.size <= 25 * 1024 * 1024

\* the mode a valid form asks for
ModeOf(form) ==
    CHOOSE m \in {sText, sImage, sReference} : IsMode(form, m)

NoCredentials ==
    /\ FAL_KEY \in {Undefined, Txt("")}
    /\ REPLICATE_KEY \in {Undefined, Txt("")}

\* the value at the place where the provider's response is to hold the video URL
VideoField(provider, json) ==
    IF json.kind # "object" THEN Undefined
    ELSE IF provider = "fal"
         THEN (IF json.video.kind = "object" THEN json.video.url ELSE Undefined)
    ELSE IF json.output.kind = "object" THEN json.output.video
    ELSE IF json.output.kind = "array" /\ json.output.items # <<>> THEN json.output.items[1]
    ELSE Undefined

\* the call failed: network exception, non-OK status, or no video URL in the response
CallFailed(provider, fetched) ==
    \/ fetched.kind = "reject"
    \/ ~fetched.ok
    \/ fetched.json.kind = "invalid"
    \/ VideoField(provider, fetched.json) \in {Undefined, Null, Txt("")}

IsMockOf(body, mode) ==
    /\ body.status = "mock"
    /\ body.videoUrl = Txt(MOCK_VIDEOS(mode).videoUrl)
    /\ body.posterUrl = Txt(MOCK_VIDEOS(mode).posterUrl)
    /\ body.mode = mode

-----------------------------------------------------------------------------
C2_NoCredentialsServeMock ==
    (pc = "done" /\ NoCredentials /\ request.body = "form" /\ ValidForm(request.form)) =>
        /\ response.status = 200
        /\ IsMockOf(response.body, ModeOf(request.form))
        /\ fetches = <<>>

\* a valid reference request served from the catalog while a credential is the empty string
C2_Witness ==
    /\ pc = "done"
    /\ NoCredentials
    /\ REPLICATE_KEY = Txt("")
    /\ request.body = "form"
    /\ IsMode(request.form, sReference)
    /\ ValidForm(request.form)
    /\ response.body.status = "mock"
    /\ response.body.videoUrl = Txt("https://storage.googleapis.com/coverr-main/mp4/Lighthouse.mp4")

\* the order and the credentials of the calls issued so far
C3_Order ==
    /\ Cardinality(inflight) <= 1
    /\ \A i, j \in DOMAIN fetches : fetches[i].provider = fetches[j].provider => i = j
    /\ \A i \in DOMAIN fetches :
         /\ fetches[i].provider = "fal" => (i = 1 /\ Truthy(FAL_KEY))
         /\ fetches[i].provider = "replicate" =>
              (Truthy(REPLICATE_KEY) /\ (Truthy(FAL_KEY) <=> i = 2))

\* a call is issued only while no call is outstanding and no provider has produced a result
C3_Issue ==
    fetches' # fetches =>
        /\ inflight = {}
        /\ providerResult = Undefined
        /\ Len(fetches') = Len(fetches) + 1

(* C3: provider A is called first and only with its credential; provider   *)
(* B only with its credential and, when A is configured, only after A's    *)
(* call settled without a result; no provider is called twice; no call is  *)
(* issued while another is outstanding or after a provider succeeded.      *)
C3_FixedProviderOrder == [](C3_Order) /\ [][C3_Issue]_vars

\* provider A was called and failed, then provider B was called
C3_Witness ==
    /\ pc = "done"
    /\ Len(fetches) = 2
    /\ fetches[1].provider = "fal"
    /\ fetches[2].provider = "replicate"

-----------------------------------------------------------------------------
\* the input validation errors of the endpoint
UnsupportedMode(form) == \A m \in {sText, sImage, sReference} : ~IsMode(form, m)

MissingPrompt(form) == IsMode(form, sText) /\ Blank(form.prompt)

MissingUpload(form) ==
    \/ IsMode(form, sImage) /\ ~IsFile(form.image)
    \/ IsMode(form, sReference) /\ ~IsFile(form.referenceVideo)

OversizedUpload(form) ==
    \/ IsMode(form, sImage) /\ IsFile(form.image) /\ form.image.size > 8 * 1024 * 1024
    \/ /\ IsMode(form, sReference)
       /\ IsFile(form.referenceVideo)
       /\ form.referenceVideo.size > 25 * 1024 * 1024

ValidationError(form) ==
    \/ UnsupportedMode(form)
    \/ MissingPrompt(form)
    \/ MissingUpload(form)
    \/ OversizedUpload(form)

(* C4: every input validation error (unsupported mode, missing required    *)
(* prompt, missing required upload, oversized upload) is answered with     *)
(* HTTP 400 and an error message, and HTTP 500 only answers errors that    *)
(* are not validation errors.                                              *)
C4_ValidationErrorsAre400 ==
    (pc = "done" /\ request.body = "form") =>
        /\ ValidationError(request.form) =>
             (response.status = 400 /\ "error" \in DOMAIN response.body)
        /\ response.status = 500 => ~ValidationError(request.form)

(* C5: a text request whose prompt is absent, empty or white space only    *)
(* issues no provider call, builds no mock result, reads no file and       *)
(* generates no job id, and is answered with HTTP 400, whatever the        *)
(* credentials and the attached files.                                     *)
C5_BlankTextPromptIs400 ==
    (request.body = "form" /\ IsMode(request.form, sText) /\ Blank(request.form.prompt)) =>
        /\ fetches = <<>>
        /\ mockBuilt = 0
        /\ filesRead = {}
        /\ jobId = Undefined
        /\ pc = "done" =>
             /\ response.status = 400
             /\ response.body.error =
                  "A descriptive prompt is required for text-to-video generations."

\* a white-space prompt rejected with both credentials set and both files attached
C5_Witness ==
    /\ pc = "done"
    /\ request.body = "form"
    /\ IsMode(request.form, sText)
    /\ request.form.prompt = Str(<<" ", "\t">>)
    /\ Truthy(FAL_KEY)
    /\ Truthy(REPLICATE_KEY)
    /\ IsFile(request.form.image)
    /\ IsFile(request.form.referenceVideo)
    /\ response.status = 400

(* C6: an image request without a File in the image field, and a reference *)
(* request without a File in the referenceVideo field, reads no file,      *)
(* generates no job id, calls no provider, builds no mock result, and is   *)
(* answered with HTTP 400 and the message naming the missing upload.       *)
C6_MissingUploadIs400 ==
    (request.body = "form" /\ MissingUpload(request.form)) =>
        /\ filesRead = {}
        /\ jobId = Undefined
        /\ fetches = <<>>
        /\ mockBuilt = 0
        /\ pc = "done" =>
             /\ response.status = 400
             /\ response.body.error =
                  IF IsMode(request.form, sImage)
                  THEN "Image-to-video generations require an image upload."
                  ELSE "Reference-to-video generations require a reference video upload."

\* a reference request that attaches only an image file, rejected
C6_Witness ==
    /\ pc = "done"
    /\ request.body = "form"
    /\ IsMode(request.form, sReference)
    /\ request.form.referenceVideo = Null
    /\ IsFile(request.form.image)
    /\ Truthy(FAL_KEY)
    /\ response.status = 400

-----------------------------------------------------------------------------
\* t is a decimal numeral: an optional sign, digits with at most one point, a digit at least
IsDecimalNumeral(t) ==
    LET b == IF t # <<>> /\ Head(t) \in {"+", "-"} THEN Tail(t) ELSE t
    IN  /\ \E i \in DOMAIN b : IsDigit(b[i])
        /\ \A i \in DOMAIN b : IsDigit(b[i]) \/ b[i] = "."
        /\ Cardinality({i \in DOMAIN b : b[i] = "."}) <= 1

\* the field holds a finite number, white space around it allowed
NumericInput(value) == value.kind = "string" /\ IsDecimalNumeral(trim(value.chars))

\* the field is present and holds the Infinity literal
InfiniteInput(value) ==
    /\ value.kind = "string"
    /\ trim(value.chars) \in {InfinityLiteral, <<"+">> \o InfinityLiteral,
                              <<"-">> \o InfinityLiteral}

\* the field is present and holds no number
NonNumericInput(value) ==
    /\ value.kind # "null"
    /\ ~NumericInput(value)
    /\ ~InfiniteInput(value)

\* n clamped into [lo, hi]
Clamped(n, lo, hi) ==
    IF NumLess(n, IntNum(lo)) THEN IntNum(lo)
    ELSE IF NumLess(IntNum(hi), n) THEN IntNum(hi)
    ELSE n

InRange(n, lo, hi) ==
    /\ n.kind = "num"
    /\ ~NumLess(n, IntNum(lo))
    /\ ~NumLess(IntNum(hi), n)

\* the statement of C7 and C8 for one field
RangeAndFallback(lo, hi, fallback) ==
    /\ InRange(out, lo, hi)
    /\ NumericInput(arg) => out = Clamped(StringToNumber(arg.chars), lo, hi)
    /\ NonNumericInput(arg) => out = IntNum(fallback)

(* C7: the stored duration lies in [3,12] and the stored guidance in       *)
(* [1,15]; a finite numeric input is clamped into the range; a non-numeric *)
(* input yields 6 for duration and 7 for guidance.                         *)
C7_ClampAndFallback ==
    /\ fn = "duration" => RangeAndFallback(3, 12, 6)
    /\ fn = "guidance" => RangeAndFallback(1, 15, 7)

\* the part of C7 the code keeps: range and clamping of every input, the
\* fallback for every non-numeric input that is not blank
C7_HoldsForNonBlank ==
    /\ fn = "duration" =>
         /\ InRange(out, 3, 12)
         /\ NumericInput(arg) => out = Clamped(StringToNumber(arg.chars), 3, 12)
         /\ (NonNumericInput(arg) /\ ~Blank(arg)) => out = IntNum(6)
    /\ fn = "guidance" =>
         /\ InRange(out, 1, 15)
         /\ NumericInput(arg) => out = Clamped(StringToNumber(arg.chars), 1, 15)
         /\ (NonNumericInput(arg) /\ ~Blank(arg)) => out = IntNum(7)

(* C8: an absent or empty duration field is stored as the default 6, an    *)
(* absent or empty guidance field as the default 7.                        *)
C8_AbsentYieldsDefault ==
    (arg \in {Null, Str(<<>>)}) =>
        /\ fn = "duration" => out = IntNum(6)
        /\ fn = "guidance" => out = IntNum(7)

-----------------------------------------------------------------------------
AllDigits(t) == t # <<>> /\ \A i \in DOMAIN t : IsDigit(t[i])

\* t is digits(.digits)?
IsRatioSide(t) ==
    \/ AllDigits(t)
    \/ \E d \in DOMAIN t :
         /\ t[d] = "."
         /\ AllDigits(SubSeq(t, 1, d - 1))
         /\ AllDigits(SubSeq(t, d + 1, Len(t)))

\* the whole of t is digits(.digits)?:digits(.digits)?
IsRatio(t) ==
    \E c \in DOMAIN t :
        /\ t[c] = ":"
        /\ IsRatioSide(SubSeq(t, 1, c - 1))
        /\ IsRatioSide(SubSeq(t, c + 1, Len(t)))

(* C9: an aspectRatio string that matches digits(.digits)?:digits(.digits)? *)
(* over the whole string passes through unchanged; every other string, a   *)
(* file and an absent field yield "16:9"; every input yields a string.     *)
C9_AspectRatioValidated ==
    fn = "aspectRatio" =>
        /\ out \in Seq(RatioAlphabet \cup {"6", "9"})
        /\ (arg.kind = "string" /\ IsRatio(arg.chars)) => out = arg.chars
        /\ (arg.kind = "string" /\ ~IsRatio(arg.chars)) => out = <<"1", "6", ":", "9">>
        /\ arg.kind \in {"null", "file"} => out = <<"1", "6", ":", "9">>

\* a ratio with decimals on both sides passed through
C9_Witness ==
    /\ fn = "aspectRatio"
    /\ arg = Str(<<"1", ".", "1", ":", "1", ".", "1">>)
    /\ out = <<"1", ".", "1", ":", "1", ".", "1">>

-----------------------------------------------------------------------------
(* C10: in every success response, from provider A, provider B or the     *)
(* mock catalog, metadata.duration, metadata.aspectRatio and               *)
(* metadata.guidance are the values the normaliser computes from the       *)
(* request's form, mode is the lower-cased mode and prompt the trimmed     *)
(* prompt.                                                                 *)
C10_MetadataIsNormalised ==
    (pc = "done" /\ response.status = 200) =>
        /\ response.body.metadata.duration = clampNumber(request.form.duration, 3, 12, 6)
        /\ response.body.metadata.guidance = clampNumber(request.form.guidance, 1, 15, 7)
        /\ response.body.metadata.aspectRatio =
             validateAspectRatio(StringOr(request.form.aspectRatio, sDefaultRatio))
        /\ InRange(response.body.metadata.duration, 3, 12)
        /\ InRange(response.body.metadata.guidance, 1, 15)
        /\ IsRatio(response.body.metadata.aspectRatio)
        /\ response.body.mode = ModeOf(request.form)
        /\ response.body.prompt = trim(StringOr(request.form.prompt, <<>>))

\* a provider result whose metadata differs from the raw duration, guidance and ratio
C10_Witness ==
    /\ pc = "done"
    /\ response.status = 200
    /\ response.body.status = "completed"
    /\ fetches[Len(fetches)].provider = "replicate"
    /\ request.form.duration = Str(<<"2", "0">>)
    /\ response.body.metadata.duration = IntNum(12)
    /\ request.form.guidance = Str(<<"-", "1">>)
    /\ response.body.metadata.guidance = IntNum(1)
    /\ request.form.aspectRatio = Str(<<"w", "i", "d", "e">>)
    /\ response.body.metadata.aspectRatio = <<"1", "6", ":", "9">>
    /\ request.form.prompt = Str(<<" ", "a", " ">>)
    /\ response.body.prompt = <<"a">>

-----------------------------------------------------------------------------
(* C11: the mode field is accepted exactly when it is text, image or       *)
(* reference in any letter case, and the accepted mode is stored as the    *)
(* lower-cased token; for every other value (absent, empty, white space    *)
(* around the token, another word) no payload is built, no file is read,   *)
(* no provider is called, no mock result is built, and the request is      *)
(* answered with an error response carrying the unsupported mode message.  *)
C11_ModeClosedSet ==
    request.body = "form" =>
        /\ \A m \in {sText, sImage, sReference} :
             IsMode(request.form, m) =>
                 /\ payload # Undefined => payload.mode = m
                 /\ (pc = "done" /\ response.status = 200) => response.body.mode = m
                 /\ (pc = "done" /\ response.status # 200) =>
                        response.body.error # "Unsupported generation mode."
        /\ UnsupportedMode(request.form) =>
             /\ payload = Undefined
             /\ filesRead = {}
             /\ fetches = <<>>
             /\ mockBuilt = 0
             /\ pc = "done" =>
                  /\ response.status >= 400
                  /\ response.body = [error |-> "Unsupported generation mode."]

\* the token with a leading space, refused with a credential set and a prompt given
C11_Witness ==
    /\ pc = "done"
    /\ request.body = "form"
    /\ request.form.mode = Str(<<" ", "t", "e", "x", "t">>)
    /\ ~Blank(request.form.prompt)
    /\ Truthy(FAL_KEY)
    /\ response.body = [error |-> "Unsupported generation mode."]

\* the token in upper case, accepted and stored in lower case
C11_UpperCaseAccepted ==
    /\ pc = "done"
    /\ request.body = "form"
    /\ request.form.mode = Str(<<"T", "E", "X", "T">>)
    /\ response.status = 200
    /\ response.body.mode = sText

-----------------------------------------------------------------------------
\* the data URI of an uploaded file: its MIME type, or the default one, and its content
DataUriOf(file) ==
    Txt("data:" \o (IF file.type = "" THEN "application/octet-stream" ELSE file.type)
        \o ";base64,b64(" \o file.content \o ")")

\* the asset fields of payload p are those of a request of mode m with form f
AssetMatchesMode(p, m, f) ==
    /\ m = sText =>
         /\ p.imageBase64 = Undefined /\ p.imageMimeType = Undefined
         /\ p.referenceBase64 = Undefined /\ p.referenceMimeType = Undefined
    /\ m = sImage =>
         /\ p.imageBase64 = DataUriOf(f.image) /\ p.imageMimeType.kind = "text"
         /\ p.referenceBase64 = Undefined /\ p.referenceMimeType = Undefined
    /\ m = sReference =>
         /\ p.referenceBase64 = DataUriOf(f.referenceVideo) /\ p.referenceMimeType.kind = "text"
         /\ p.imageBase64 = Undefined /\ p.imageMimeType = Undefined

\* the asset fields of an outbound request body
SentImage(fetch) ==
    IF fetch.provider = "fal" THEN fetch.body.image_url ELSE fetch.body.input.image

SentReference(fetch) ==
    IF fetch.provider = "fal" THEN fetch.body.video_url ELSE fetch.body.input.reference

\* the form field a mode uses, none for text
FieldsOf(m) ==
    IF m = sImage THEN {"image"} ELSE IF m = sReference THEN {"referenceVideo"} ELSE {}

(* C12: when the payload reaches the provider router or the mock catalog,  *)
(* it holds no asset for a text request, the image data URI and no         *)
(* reference for an image request, the reference data URI and no image     *)
(* for a reference request, and every outbound call forwards exactly       *)
(* that; a file under a field the mode does not use is never read, and     *)
(* its size never causes the request to be refused.                        *)
C12_AssetMatchesMode ==
    (request.body = "form" /\ ~UnsupportedMode(request.form)) =>
        LET m == ModeOf(request.form)
        IN  /\ filesRead \subseteq FieldsOf(m)
            /\ pc \in {"gate", "tryFal", "awaitFal", "tryReplicate", "awaitReplicate", "respond"}
                 => /\ AssetMatchesMode(payload, m, request.form)
                    /\ filesRead = FieldsOf(m)
            /\ mockBuilt > 0 => AssetMatchesMode(payload, m, request.form)
            /\ \A i \in DOMAIN fetches :
                 /\ SentImage(fetches[i]) =
                      (IF m = sImage THEN DataUriOf(request.form.image) ELSE Undefined)
                 /\ SentReference(fetches[i]) =
                      (IF m = sReference THEN DataUriOf(request.form.referenceVideo)
                       ELSE Undefined)
            /\ (pc = "done" /\ ValidForm(request.form)) => response.status = 200

\* an image request that also attaches an oversized clip: the clip is not read, not
\* size-checked, not forwarded
C12_Witness ==
    /\ pc = "done"
    /\ request.body = "form"
    /\ IsMode(request.form, sImage)
    /\ IsFile(request.form.image)
    /\ IsFile(request.form.referenceVideo)
    /\ request.form.referenceVideo.size > 25 * 1024 * 1024
    /\ filesRead = {"image"}
    /\ Len(fetches) = 2
    /\ SentImage(fetches[2]) = DataUriOf(request.form.image)
    /\ SentReference(fetches[2]) = Undefined
    /\ response.status = 200

-----------------------------------------------------------------------------
\* a usable video URL: a non-empty string
UsableUrl(v) == v.kind = "text" /\ v.value # ""

\* the provider of the last outbound call
LastProvider == fetches[Len(fetches)].provider

(* C13: every completed result carries a usable video URL, a non-empty     *)
(* string, taken from the response of the provider called last; and an OK  *)
(* response without such a URL makes the attempt produce no result: the    *)
(* answer is then never a completed result and never an error response.    *)
C13_CompletedHasUsableUrl ==
    (pc = "done" /\ fetches # <<>>) =>
        /\ (response.status = 200 /\ response.body.status = "completed") =>
             /\ UsableUrl(response.body.videoUrl)
             /\ lastResponse.kind = "response" /\ lastResponse.ok
             /\ response.body.videoUrl = VideoField(LastProvider, lastResponse.json)
        /\ ( /\ lastResponse.kind = "response"
             /\ lastResponse.ok
             /\ \/ lastResponse.json.kind = "invalid"
                \/ ~UsableUrl(VideoField(LastProvider, lastResponse.json)) ) =>
             /\ response.status = 200
             /\ response.body.status = "mock"

\* the part of C13 the code keeps: the statement for provider B, and for provider A
\* when the url field of its response is a string or is missing
C13_HoldsForStringUrls ==
    (pc = "done" /\ fetches # <<>>) =>
        LET url == IF lastResponse.kind = "response" /\ lastResponse.json.kind # "invalid"
                   THEN VideoField(LastProvider, lastResponse.json) ELSE Undefined
        IN  (LastProvider = "replicate" \/ url.kind \in {"text", "undefined", "null"}) =>
                C13_CompletedHasUsableUrl

-----------------------------------------------------------------------------
\* the ceiling of the upload a mode requires, in bytes and as the message prints it
CeilingOf(m) == IF m = sImage THEN 8 * 1024 * 1024 ELSE 25 * 1024 * 1024

CeilingText(m) == IF m = sImage THEN "8.0" ELSE "25.0"

\* the file a request of mode m uploads
UploadOf(form, m) == IF m = sImage THEN form.image ELSE form.referenceVideo

(* C14: the upload of an image or reference request is refused with the    *)
(* size-limit error exactly when its size is greater than the ceiling of   *)
(* its mode, 8 MiB for an image and 25 MiB for a clip, a file of exactly   *)
(* the ceiling being accepted; a refused upload is not read, no provider   *)
(* is called, no job id is generated, no mock result is built, and the     *)
(* request is answered with an error response.                             *)
C14_SizeCeiling ==
    \A m \in {sImage, sReference} :
        (request.body = "form" /\ IsMode(request.form, m) /\ IsFile(UploadOf(request.form, m))) =>
            LET file == UploadOf(request.form, m)
                message == "Uploaded file exceeds the allowed size of "
                             \o CeilingText(m) \o "MB."
            IN  /\ file.size > CeilingOf(m) =>
                    /\ filesRead = {}
                    /\ fetches = <<>>
                    /\ jobId = Undefined
                    /\ mockBuilt = 0
                    /\ pc = "done" =>
                         /\ response.status >= 400
                         /\ response.body = [error |-> message]
                /\ file.size <= CeilingOf(m) =>
                    /\ pc \notin {"start", "normalize", "upload"} =>
                         filesRead = FieldsOf(m)
                    /\ pc = "done" => response.status = 200

\* a clip of exactly 25 MiB, read and answered with 200
C14_Witness ==
    /\ pc = "done"
    /\ request.body = "form"
    /\ IsMode(request.form, sReference)
    /\ IsFile(request.form.referenceVideo)
    /\ request.form.referenceVideo.size = 25 * 1024 * 1024
    /\ filesRead = {"referenceVideo"}
    /\ response.status = 200

\* an image of 8 MiB and one byte, refused with credentials set
C14_RefusedWitness ==
    /\ pc = "done"
    /\ request.body = "form"
    /\ IsMode(request.form, sImage)
    /\ IsFile(request.form.image)
    /\ request.form.image.size = 8 * 1024 * 1024 + 1
    /\ Truthy(FAL_KEY)
    /\ filesRead = {}
    /\ response.body = [error |-> "Uploaded file exceeds the allowed size of 8.0MB."]

-----------------------------------------------------------------------------
\* the credential is configured: set, and not the empty string
IsSet(key) == key.kind = "text" /\ key.value # ""

(* C15: with neither credential set, unset or empty, the router is never   *)
(* entered, no outbound call is made and every success response is the     *)
(* mock result; with a credential set, every outbound call goes to a       *)
(* provider whose own credential is set and is authorised with that        *)
(* credential.                                                             *)
C15_CredentialGating ==
    /\ (~IsSet(FAL_KEY) /\ ~IsSet(REPLICATE_KEY)) =>
         /\ fetches = <<>>
         /\ inflight = {}
         /\ pc \notin {"tryFal", "awaitFal", "tryReplicate", "awaitReplicate"}
         /\ (pc = "done" /\ response.status = 200) =>
              (response.body.status = "mock" /\ mockBuilt = 1)
    /\ \A i \in DOMAIN fetches :
         /\ fetches[i].provider = "fal" =>
              (IsSet(FAL_KEY) /\ fetches[i].authorization = "Key " \o FAL_KEY.value)
         /\ fetches[i].provider = "replicate" =>
              /\ IsSet(REPLICATE_KEY)
              /\ fetches[i].authorization = "Bearer " \o REPLICATE_KEY.value
    /\ "fal" \in inflight => IsSet(FAL_KEY)
    /\ "replicate" \in inflight => IsSet(REPLICATE_KEY)

\* provider A's credential is the empty string: only provider B is called
C15_Witness ==
    /\ pc = "done"
    /\ FAL_KEY = Txt("")
    /\ IsSet(REPLICATE_KEY)
    /\ Len(fetches) = 1
    /\ fetches[1].provider = "replicate"
    /\ response.status = 200

\* both credentials empty: the mock result without a call
C15_EmptyKeysWitness ==
    /\ pc = "done"
    /\ FAL_KEY = Txt("")
    /\ REPLICATE_KEY = Txt("")
    /\ fetches = <<>>
    /\ response.status = 200
    /\ response.body.status = "mock"

-----------------------------------------------------------------------------
\* the fields of a GenerationResult
ResultFields == {"jobId", "videoUrl", "posterUrl", "mode", "prompt", "status", "metadata"}

\* the response is a success with a GenerationResult or an error with a message
WellFormedResponse ==
    \/ /\ response.status = 200
       /\ DOMAIN response.body = ResultFields
       /\ response.body.status \in {"completed", "mock"}
       /\ response.body.jobId = jobId
       /\ jobId.kind = "text"
    \/ /\ response.status \in {400, 500}
       /\ DOMAIN response.body = {"error"}

\* the handler has answered exactly when it has ended, in one of the two forms, and
\* with a success whenever the request is valid
C16_Answered ==
    /\ pc = "done" <=> response # Undefined
    /\ pc = "done" => WellFormedResponse
    /\ (pc = "done" /\ request.body = "form" /\ ValidForm(request.form)) =>
           response.status = 200

\* a response, once sent, is not replaced and the handler takes no further step
C16_AnsweredOnce == response # Undefined => UNCHANGED vars

(* C16: provided every provider call that was issued settles, every        *)
(* request ends in exactly one response: the handler reaches its end, it   *)
(* has answered exactly when it has ended, the answer is HTTP 200 with a   *)
(* GenerationResult or HTTP 400 or 500 with a body holding only an error   *)
(* message, it is never replaced by another, and it is 200 whenever mode,  *)
(* prompt and upload of the request are valid.                             *)
C16_ExactlyOneResponse ==
    /\ <>(pc = "done")
    /\ [](C16_Answered)
    /\ [][C16_AnsweredOnce]_vars

\* a malformed body: the exception of formData() is answered with 500
C16_Witness ==
    /\ pc = "done"
    /\ request.body = "malformed"
    /\ response = Json(500, [error |-> "Failed to parse body as FormData."])
    /\ logged = <<"[generate-route]">>

\* both providers called and failed, the request still answered with 200
C16_AfterTwoCallsWitness ==
    /\ pc = "done"
    /\ Len(fetches) = 2
    /\ inflight = {}
    /\ response.status = 200
    /\ Len(logged) = 2

-----------------------------------------------------------------------------
(* C17: an image request with an image of at most 8 MiB, and a reference   *)
(* request with a clip of at most 25 MiB, whose prompt is absent, empty or *)
(* white space only, is answered with HTTP 200, and the result carries the *)
(* empty prompt; the outbound calls carry the empty prompt too.            *)
C17_PromptOptionalWithUpload ==
    ( /\ pc = "done"
      /\ request.body = "form"
      /\ IsMode(request.form, sImage) \/ IsMode(request.form, sReference)
      /\ ValidForm(request.form)
      /\ Blank(request.form.prompt) ) =>
        /\ response.status = 200
        /\ response.body.prompt = <<>>
        /\ response.body.mode = ModeOf(request.form)
        /\ \A i \in DOMAIN fetches :
             (IF fetches[i].provider = "fal" THEN fetches[i].body.prompt
              ELSE fetches[i].body.input.prompt) = <<>>

\* a reference request with a white-space prompt, completed by a provider
C17_Witness ==
    /\ pc = "done"
    /\ request.body = "form"
    /\ IsMode(request.form, sReference)
    /\ request.form.prompt = Str(<<" ", "\t">>)
    /\ response.status = 200
    /\ response.body.status = "completed"
    /\ response.body.prompt = <<>>

\* an image request without the prompt field, served from the mock catalog
C17_AbsentPromptWitness ==
    /\ pc = "done"
    /\ request.body = "form"
    /\ IsMode(request.form, sImage)
    /\ request.form.prompt = Null
    /\ response.status = 200
    /\ response.body.status = "mock"
    /\ response.body.prompt = <<>>

-----------------------------------------------------------------------------
(* C18: the page has at most one generation request in flight, and the     *)
(* submit button is disabled, isPending being true, for as long as a       *)
(* fetch has been issued and has not settled.                              *)
C18_SingleFlight ==
    /\ Cardinality(DOMAIN pendingFetches) <= 1
    /\ pendingFetches # <<>> => home.isPending

\* what the code keeps of C18: no submission is accepted while isPending is true
C18_NoSubmitWhilePending ==
    home.isPending =>
        (submitted' = submitted /\ DOMAIN pendingFetches' \subseteq DOMAIN pendingFetches)

C18_GuardedByPending == [][C18_NoSubmitWhilePending]_vars

\* the fields of the page that show the outcome of a generation
Displayed(h) == <<h.result, h.statusMessage, h.error>>

\* a step in which the fetch of a request settles after a later request was submitted
\* leaves the displayed result, status message and error as they are
C19_NoLateOverwrite ==
    \A i \in DOMAIN pendingFetches :
        (i \notin DOMAIN pendingFetches' /\ i < submitted) =>
            Displayed(home') = Displayed(home)

(* C19: the displayed result, status message and error belong to the most  *)
(* recently submitted request: the response of an earlier request that     *)
(* arrives after a later request was submitted never overwrites them.      *)
C19_LatestRequestWins == [][C19_NoLateOverwrite]_vars

\* the state form of C19: once every request has settled, a displayed success message
\* stands beside the result of the most recently submitted request
C19_AtRest ==
    ( /\ pendingFetches = <<>>
      /\ submitted > 0
      /\ home.statusMessage \in {Txt(resultMessage("mock")), Txt(resultMessage("completed"))} )
        => home.result.jobId = JobOf(submitted)

\* the upload rule of the endpoint, for a FormData the page sent
C20_SentValid ==
    \A i \in DOMAIN pendingFetches :
        LET form == pendingFetches[i]
        IN  /\ ~UnsupportedMode(form)
            /\ ~MissingUpload(form)
            /\ IsFile(form.image) <=> IsMode(form, sImage)
            /\ IsFile(form.referenceVideo) <=> IsMode(form, sReference)

\* what a step of the page may send, and when it shows the message of a missing upload
C20_SubmitGuard ==
    LET noImage == home.mode = sImage /\ home.imageFile = Null
        noClip == home.mode = sReference /\ home.referenceVideoFile = Null
        imageError == Txt("Upload an image to drive the animation.")
        clipError == Txt("Upload a reference motion clip.")
    IN  /\ (noImage \/ noClip) =>
              /\ submitted' = submitted
              /\ DOMAIN pendingFetches' \subseteq DOMAIN pendingFetches
        /\ submitted' # submitted =>
              /\ submitted' = submitted + 1
              /\ DOMAIN pendingFetches' = DOMAIN pendingFetches \cup {submitted'}
              /\ pendingFetches'[submitted'].mode = Str(home.mode)
              /\ pendingFetches'[submitted'].image =
                   (IF home.mode = sImage THEN home.imageFile ELSE Null)
              /\ pendingFetches'[submitted'].referenceVideo =
                   (IF home.mode = sReference THEN home.referenceVideoFile ELSE Null)
        /\ (home'.error = imageError /\ home.error # imageError) => noImage
        /\ (home'.error = clipError /\ home.error # clipError) => noClip

(* C20: every request the page sends satisfies the upload rule of the      *)
(* endpoint: an image request carries an image file and no clip, a         *)
(* reference request a clip and no image, a text request neither; in image *)
(* mode without an image and in reference mode without a clip a submission *)
(* sends nothing and only shows the message naming the missing upload,     *)
(* whatever modes and files were selected before.                          *)
C20_PageSendsOnlyValidUploads ==
    /\ [](C20_SentValid)
    /\ [][C20_SubmitGuard]_vars

\* a reference request in flight that carries the clip and leaves out the image that is
\* still selected from an earlier visit of the image mode
C20_Witness ==
    \E i \in DOMAIN pendingFetches :
        /\ IsMode(pendingFetches[i], sReference)
        /\ pendingFetches[i].referenceVideo = MP4
        /\ pendingFetches[i].image = Null
        /\ home.imageFile = PNG

\* a submission in image mode without an image: refused, nothing sent
C20_RefusedWitness ==
    /\ home.mode = sImage
    /\ home.imageFile = Null
    /\ home.error = Txt("Upload an image to drive the animation.")
    /\ submitted = 0

====
